---- MODULE Spec2Model ----
\* Verification model of the discreta-u3-proto front-end: the POSET builder
\* (graph-based and simple variants), the lattice builder (graph-based and
\* simple variants) and the permutation explorer.
\*
\* Each React component keeps its structure and its feedback line in useState
\* cells; a button handler is one atomic action.  The text fields a handler
\* reads (newElement, newRelation, newConnection) are the handler's input and
\* are drawn with \E; the React Flow rendering state (nodes, edges) is rebuilt
\* from the structure by buildGraph / buildReactFlowGraph and is read by no
\* check, so it is not part of the state here.
\* The two variants of a builder declare the same state cells (poset, lattice,
\* feedback); a specification below runs the handlers of one variant on them.
\* game is the component the page shows: a page mounts one component, whose
\* handlers are the only ones that can run; it is "" where a specification
\* applies the checks to drawn inputs directly.
EXTENDS Integers, Sequences, FiniteSets, TLC

VARIABLES poset, lattice, elements, mapping, feedback, game

vars == <<poset, lattice, elements, mapping, feedback, game>>

\* ---------------------------------------------------------------- bounds
\* Largest element list drawn as an input of the pure checks.
MaxElems == 3

\* Largest number of relations or connections of a structure in the graph-based
\* builders: an edit may not lead to more, and the relations drawn for the
\* closure utilities have no more.
MaxEdges == 4

\* Largest number of relations or connections in the simple builders, which
\* start with four and have no puzzle to load.
MaxSimpleEdges == 5

\* Longest element list drawn as an input of the permutation functions.
MaxPerm == 4

\* Largest number of relations in the run of the graph-based POSET builder
\* that follows a verdict through later edits: the puzzle made a partial order
\* has six, and one more edit follows the verdict.
MaxPosetEdges == 7

\* ---------------------------------------------------------------- labels
\* Element labels, in a fixed enumeration order.
Labels == <<"A", "B", "C", "D", "E", "F">>

\* Array.prototype.includes
Includes(s, x) == \E i \in DOMAIN s : s[i] = x

\* Array.prototype.indexOf, 1-based; 0 when absent (JavaScript: -1).
IndexOf(s, x) ==
    IF Includes(s, x) THEN CHOOSE i \in DOMAIN s : s[i] = x /\ \A j \in 1..(i-1) : s[j] # x
    ELSE 0

\* The members of a sequence.
Range(s) == {s[i] : i \in DOMAIN s}

\* Smallest member of a non-empty set of naturals.
Min(S) == CHOOSE m \in S : \A k \in S : m <= k

\* Smallest triple of a non-empty set of triples, in the order of three
\* nested loops (outermost index first).
LexMin3(S) ==
    LET i == Min({t[1] : t \in S})
        j == Min({t[2] : t \in {u \in S : u[1] = i}})
        k == Min({t[3] : t \in {u \in S : u[1] = i /\ u[2] = j}})
    IN <<i, j, k>>

\* Smallest pair of a non-empty set of pairs, in the order of two nested loops.
LexMin2(S) ==
    LET i == Min({t[1] : t \in S})
        j == Min({t[2] : t \in {u \in S : u[1] = i}})
    IN <<i, j>>

\* ---------------------------------------------------------------- feedback
\* A feedback message: which template it is and the values interpolated into
\* it, in the order they appear.
Msg(kind, args) == [kind |-> kind, args |-> args]

\* useState("")
NoFeedback == Msg("", <<>>)

\* string | null | undefined: <<>> is null, <<z>> the string z.
Null == <<>>

\* JavaScript falsiness of a string | null | undefined: null, undefined and "" are falsy.
Falsy(r) == r = Null \/ r = <<"">>

\* ---------------------------------------------------------------- text input
\* A text field's content is a sequence of one-character strings.
\* Array.prototype.join(""): the string the characters spell.
RECURSIVE Join(_)
Join(cs) == IF cs = <<>> THEN "" ELSE Head(cs) \o Join(Tail(cs))

IsSpace(c) == c = " "

\* String.prototype.trim
RECURSIVE Trim(_)
Trim(cs) ==
    IF cs = <<>> THEN <<>>
    ELSE IF IsSpace(Head(cs)) THEN Trim(Tail(cs))
    ELSE IF IsSpace(cs[Len(cs)]) THEN Trim(SubSeq(cs, 1, Len(cs) - 1))
    ELSE cs

\* String.prototype.split(sep): the parts between the separators; a text
\* without separator is its own single part.
RECURSIVE Split(_, _)
Split(cs, sep) ==
    IF cs = <<>> THEN << <<>> >>
    ELSE LET init == Split(SubSeq(cs, 1, Len(cs) - 1), sep)
             c == cs[Len(cs)]
         IN IF c = sep THEN Append(init, <<>>)
            ELSE [init EXCEPT ![Len(init)] = Append(@, c)]

\* const [from, to] = text.split("-"): part k as a string, or undefined
\* (Null) when the split has fewer parts.
Part(parts, k) == IF k <= Len(parts) THEN <<Join(parts[k])>> ELSE Null

\* ---------------------------------------------------------------- POSET builder
\* type PosetElement = { value, relations }
PosetElement(v, rels) == [value |-> v, relations |-> rels]

initialPoset ==
    << PosetElement("A", <<"B", "C">>),
       PosetElement("B", <<"D">>),
       PosetElement("C", <<"D">>),
       PosetElement("D", <<>>) >>

puzzlePoset ==
    << PosetElement("P", <<"Q">>),
       PosetElement("Q", <<"R">>),
       PosetElement("R", <<>>) >>

\* poset.find((el) => el.value === v): index of the first such element, 0 if none.
FindIdx(p, v) ==
    IF \E i \in DOMAIN p : p[i].value = v
    THEN Min({i \in DOMAIN p : p[i].value = v})
    ELSE 0

\* The relation list of the element named first in element i's relations.
RelationsOfFirst(p, i) ==
    IF FindIdx(p, p[i].relations[1]) = 0 THEN <<>>
    ELSE p[FindIdx(p, p[i].relations[1])].relations

\* checkReflexivity: the first element, in list order, that lacks its self-pair.
checkReflexivity(p) ==
    LET bad == {i \in DOMAIN p : ~Includes(p[i].relations, p[i].value)}
    IN IF bad = {} THEN [isValid |-> TRUE, reason |-> <<>>]
       ELSE [isValid |-> FALSE, reason |-> <<p[Min(bad)].value>>]

\* checkAntisymmetry with the comparison of the two relation lists left out:
\* no pair is ever reported.
checkAntisymmetrySkipped(p) == [isValid |-> TRUE, reason |-> <<>>]

\* checkAntisymmetry: the first pair (el1, el2), outer loop el1, with distinct
\* values related both ways.
checkAntisymmetry(p) ==
    LET bad == {t \in (DOMAIN p) \X (DOMAIN p) :
                   /\ p[t[1]].value # p[t[2]].value
                   /\ Includes(p[t[1]].relations, p[t[2]].value)
                   /\ Includes(p[t[2]].relations, p[t[1]].value)}
    IN IF bad = {} THEN [isValid |-> TRUE, reason |-> <<>>]
       ELSE LET t == LexMin2(bad)
            IN [isValid |-> FALSE, reason |-> <<p[t[1]].value, p[t[2]].value>>]

\* checkTransitivity returning from inside the rel1 loop: only each element's
\* first relation is followed.
checkTransitivityFirstOnly(p) ==
    LET bad == {i \in DOMAIN p :
                   /\ p[i].relations # <<>>
                   /\ \E m \in DOMAIN RelationsOfFirst(p, i) :
                         ~Includes(p[i].relations, RelationsOfFirst(p, i)[m])}
    IN IF bad = {} THEN [isValid |-> TRUE, reason |-> <<>>]
       ELSE [isValid |-> FALSE, reason |-> <<p[Min(bad)].value>>]

\* checkTransitivity: loops el1, rel1 in el1.relations, rel2 in the relations
\* of the element named rel1 (skipped when no such element); the first
\* (el1, rel1, rel2) with rel2 missing from el1.relations.
checkTransitivity(p) ==
    LET bad == UNION { UNION { { <<i, k, m>> : m \in
                         {m \in (IF FindIdx(p, p[i].relations[k]) = 0 THEN {}
                                 ELSE DOMAIN p[FindIdx(p, p[i].relations[k])].relations) :
                             ~Includes(p[i].relations,
                                       p[FindIdx(p, p[i].relations[k])].relations[m])} }
                       : k \in DOMAIN p[i].relations }
                     : i \in DOMAIN p }
    IN IF bad = {} THEN [isValid |-> TRUE, reason |-> <<>>]
       ELSE LET t == LexMin3(bad)
                b == FindIdx(p, p[t[1]].relations[t[2]])
            IN [isValid |-> FALSE,
                reason |-> <<p[t[1]].value, p[t[1]].relations[t[2]], p[b].relations[t[3]]>>]

\* handleCheckPoset with the antisymmetry check run before the reflexivity check.
PosetVerdictAntisymmetryFirst(p) ==
    IF ~checkAntisymmetry(p).isValid
    THEN Msg("NotAntisymmetric", checkAntisymmetry(p).reason)
    ELSE IF ~checkReflexivity(p).isValid
    THEN Msg("NotReflexive", checkReflexivity(p).reason)
    ELSE IF ~checkTransitivity(p).isValid
    THEN Msg("NotTransitive", checkTransitivity(p).reason)
    ELSE Msg("ValidPOSET", <<>>)

\* The message handleCheckPoset leaves in the feedback line.
PosetVerdict(p) ==
    IF ~checkReflexivity(p).isValid
    THEN Msg("NotReflexive", checkReflexivity(p).reason)
    ELSE IF ~checkAntisymmetry(p).isValid
    THEN Msg("NotAntisymmetric", checkAntisymmetry(p).reason)
    ELSE IF ~checkTransitivity(p).isValid
    THEN Msg("NotTransitive", checkTransitivity(p).reason)
    ELSE Msg("ValidPOSET", <<>>)

\* Array.prototype.reverse
Reverse(q) == [i \in DOMAIN q |-> q[Len(q) + 1 - i]]

\* handleCheckPoset walking each relation list with the in-place reverse().
handleCheckPosetReversing ==
    /\ poset' = [i \in DOMAIN poset |-> [poset[i] EXCEPT !.relations = Reverse(@)]]
    /\ feedback' = [feedback EXCEPT !.poset = PosetVerdict(poset)]
    /\ UNCHANGED <<lattice, elements, mapping, game>>

handleCheckPoset ==
    /\ feedback' = [feedback EXCEPT !.poset = PosetVerdict(poset)]
    /\ UNCHANGED <<poset, lattice, elements, mapping, game>>

\* ---- editing the POSET (graph-based builder)
\* How many relations the structure holds.
RECURSIVE NumRelations(_)
NumRelations(p) ==
    IF p = <<>> THEN 0 ELSE Len(Head(p).relations) + NumRelations(Tail(p))

\* poset.some((el) => el.value === v)
HasElement(p, v) == \E i \in DOMAIN p : p[i].value = v

\* poset.map: the element named from gains the relation to, unless it lists
\* it already.
AddRelation(p, from, to) ==
    [i \in DOMAIN p |->
        IF p[i].value = from /\ ~Includes(p[i].relations, to)
        THEN [p[i] EXCEPT !.relations = Append(@, to)]
        ELSE p[i]]

\* handleAddElement of the POSET builder: the trimmed text is appended unless
\* it is empty (no message) or already an element.
PosetGame_handleAddElement(text) ==
    LET elTrim == Join(Trim(text))
    IN /\ UNCHANGED <<lattice, elements, mapping, game>>
       /\ IF elTrim = ""
          THEN UNCHANGED <<poset, feedback>>
          ELSE IF HasElement(poset, elTrim)
          THEN /\ feedback' = [feedback EXCEPT !.poset = Msg("ElementExists", <<elTrim>>)]
               /\ UNCHANGED poset
          ELSE /\ poset' = Append(poset, PosetElement(elTrim, <<>>))
               /\ feedback' = [feedback EXCEPT !.poset = Msg("ElementAdded", <<elTrim>>)]

\* handleAddRelation: "from-to" with both parts non-empty and different, both
\* declared; the relation is appended to from's list unless already there.
handleAddRelation(text) ==
    LET parts == Split(Trim(text), "-")
        from == Part(parts, 1)
        to == Part(parts, 2)
    IN /\ UNCHANGED <<lattice, elements, mapping, game>>
       /\ IF Falsy(from) \/ Falsy(to) \/ from = to
          THEN /\ feedback' = [feedback EXCEPT !.poset = Msg("InvalidRelation", <<>>)]
               /\ UNCHANGED poset
          ELSE IF ~HasElement(poset, from[1])
          THEN /\ feedback' = [feedback EXCEPT !.poset = Msg("NoSuchElement", from)]
               /\ UNCHANGED poset
          ELSE IF ~HasElement(poset, to[1])
          THEN /\ feedback' = [feedback EXCEPT !.poset = Msg("NoSuchElement", to)]
               /\ UNCHANGED poset
          ELSE /\ poset' = AddRelation(poset, from[1], to[1])
               /\ feedback' = [feedback EXCEPT !.poset = Msg("RelationAdded", <<from[1], to[1]>>)]

\* React Flow's onConnect on the POSET graph: source and target are node ids
\* or null; no message is set.
PosetGame_onConnect(source, target) ==
    /\ UNCHANGED <<lattice, elements, mapping, feedback, game>>
    /\ IF Falsy(source) \/ Falsy(target)
       THEN UNCHANGED poset
       ELSE poset' = AddRelation(poset, source[1], target[1])

PosetGame_handleLoadPuzzle ==
    /\ poset' = puzzlePoset
    /\ feedback' = [feedback EXCEPT !.poset = Msg("PuzzleLoaded", <<>>)]
    /\ UNCHANGED <<lattice, elements, mapping, game>>

\* ---- simple variant (posets/PosetGame.tsx)
isReflexive(p) == \A i \in DOMAIN p : Includes(p[i].relations, p[i].value)

isAntisymmetric(p) ==
    ~ \E i \in DOMAIN p, j \in DOMAIN p :
         /\ p[i].value # p[j].value
         /\ Includes(p[i].relations, p[j].value)
         /\ Includes(p[j].relations, p[i].value)

\* poset.find(el => el.value === el2)?.relations || []
RelationsOf(p, v) == IF FindIdx(p, v) = 0 THEN <<>> ELSE p[FindIdx(p, v)].relations

isTransitive(p) ==
    \A i \in DOMAIN p : \A k \in DOMAIN p[i].relations :
       \A m \in DOMAIN RelationsOf(p, p[i].relations[k]) :
          Includes(p[i].relations, RelationsOf(p, p[i].relations[k])[m])

SimplePosetVerdict(p) ==
    IF ~isReflexive(p) \/ ~isAntisymmetric(p) \/ ~isTransitive(p)
    THEN Msg("NotValidPoset", <<>>)
    ELSE Msg("ValidPoset", <<>>)

checkPosetProperties ==
    /\ feedback' = [feedback EXCEPT !.poset = SimplePosetVerdict(poset)]
    /\ UNCHANGED <<poset, lattice, elements, mapping, game>>

\* addElement of the simple builder: the raw text, not trimmed, is appended
\* unless it is empty or already an element.
addElement(text) ==
    LET newElement == Join(text)
    IN /\ UNCHANGED <<lattice, elements, mapping, game>>
       /\ IF newElement # "" /\ ~HasElement(poset, newElement)
          THEN /\ poset' = Append(poset, PosetElement(newElement, <<>>))
               /\ feedback' = [feedback EXCEPT !.poset = Msg("SimpleElementAdded", <<>>)]
          ELSE /\ feedback' = [feedback EXCEPT !.poset = Msg("SimpleInvalidElement", <<>>)]
               /\ UNCHANGED poset

\* addRelation without the from !== to test.
addRelationAllowingSelf(text) ==
    LET parts == Split(text, "-")
        from == Part(parts, 1)
        to == Part(parts, 2)
    IN /\ UNCHANGED <<lattice, elements, mapping, game>>
       /\ IF ~Falsy(from) /\ ~Falsy(to)
          THEN /\ poset' = [i \in DOMAIN poset |->
                               IF poset[i].value = from[1]
                               THEN [poset[i] EXCEPT !.relations = Append(@, to[1])]
                               ELSE poset[i]]
               /\ feedback' = [feedback EXCEPT !.poset = Msg("SimpleRelationAdded", <<>>)]
          ELSE /\ feedback' = [feedback EXCEPT !.poset = Msg("SimpleInvalidRelation", <<>>)]
               /\ UNCHANGED poset

\* addRelation of the simple builder: "from-to" (not trimmed) with both parts
\* non-empty and different; to is appended to the list of every element named
\* from, declared or not, listed already or not.
addRelation(text) ==
    LET parts == Split(text, "-")
        from == Part(parts, 1)
        to == Part(parts, 2)
    IN /\ UNCHANGED <<lattice, elements, mapping, game>>
       /\ IF ~Falsy(from) /\ ~Falsy(to) /\ from # to
          THEN /\ poset' = [i \in DOMAIN poset |->
                               IF poset[i].value = from[1]
                               THEN [poset[i] EXCEPT !.relations = Append(@, to[1])]
                               ELSE poset[i]]
               /\ feedback' = [feedback EXCEPT !.poset = Msg("SimpleRelationAdded", <<>>)]
          ELSE /\ feedback' = [feedback EXCEPT !.poset = Msg("SimpleInvalidRelation", <<>>)]
               /\ UNCHANGED poset

\* ---------------------------------------------------------------- lattice builder
\* type LatticeElement = { value, connections }
LatticeElement(v, conns) == [value |-> v, connections |-> conns]

initialLattice ==
    << LatticeElement("A", <<"B", "C">>),
       LatticeElement("B", <<"D">>),
       LatticeElement("C", <<"D">>),
       LatticeElement("D", <<>>) >>

puzzleLattice ==
    << LatticeElement("P", <<"Q">>),
       LatticeElement("Q", <<"R">>),
       LatticeElement("R", <<>>) >>

\* [...new Set(s)]: the first occurrences, in order.
RECURSIVE Dedup(_)
Dedup(s) ==
    IF s = <<>> THEN <<>>
    ELSE LET d == Dedup(SubSeq(s, 1, Len(s) - 1))
         IN IF Includes(d, s[Len(s)]) THEN d ELSE Append(d, s[Len(s)])

\* lat.forEach pushing on above only, not on the queue: the traversal stops
\* at the elements that list the target directly.
RECURSIVE ScanAboveDirectOnly(_, _, _, _)
ScanAboveDirectOnly(i, current, st, lat) ==
    IF i > Len(lat) THEN st
    ELSE IF Includes(lat[i].connections, current) /\ ~Includes(st.out, lat[i].value)
         THEN ScanAboveDirectOnly(i + 1, current,
                                  [out |-> Append(st.out, lat[i].value), queue |-> st.queue], lat)
         ELSE ScanAboveDirectOnly(i + 1, current, st, lat)

\* One pass of lat.forEach in getAllAbove, from element i on: every element
\* that lists current and is not yet in above is pushed on above and the queue.
RECURSIVE ScanAbove(_, _, _, _)
ScanAbove(i, current, st, lat) ==
    IF i > Len(lat) THEN st
    ELSE IF Includes(lat[i].connections, current) /\ ~Includes(st.out, lat[i].value)
         THEN ScanAbove(i + 1, current,
                        [out |-> Append(st.out, lat[i].value),
                         queue |-> Append(st.queue, lat[i].value)], lat)
         ELSE ScanAbove(i + 1, current, st, lat)

\* The while loop of getAllAbove.
RECURSIVE AboveLoop(_, _)
AboveLoop(st, lat) ==
    IF st.queue = <<>> THEN st.out
    ELSE AboveLoop(ScanAbove(1, Head(st.queue), [out |-> st.out, queue |-> Tail(st.queue)], lat),
                   lat)

\* getAllAbove with the target marked as seen from the start, so that it is
\* never pushed.
getAllAboveSeeded(target, lat) ==
    SelectSeq(AboveLoop([out |-> <<>>, queue |-> <<target>>], lat), LAMBDA x : x # target)

\* getAllAbove(target, lat): breadth-first over the elements that list the
\* current one among their connections.
getAllAbove(target, lat) == AboveLoop([out |-> <<>>, queue |-> <<target>>], lat)

\* lat.find((el) => el.value === v)
FindLat(lat, v) ==
    IF \E i \in DOMAIN lat : lat[i].value = v
    THEN Min({i \in DOMAIN lat : lat[i].value = v})
    ELSE 0

\* found.connections.forEach pushing on below only, not on the queue: the
\* traversal stops at the direct connections.
RECURSIVE ScanBelowDirectOnly(_, _, _)
ScanBelowDirectOnly(k, conns, st) ==
    IF k > Len(conns) THEN st
    ELSE IF ~Includes(st.out, conns[k])
         THEN ScanBelowDirectOnly(k + 1, conns,
                                  [out |-> Append(st.out, conns[k]), queue |-> st.queue])
         ELSE ScanBelowDirectOnly(k + 1, conns, st)

\* found.connections.forEach in getAllBelow, from connection k on.
RECURSIVE ScanBelow(_, _, _)
ScanBelow(k, conns, st) ==
    IF k > Len(conns) THEN st
    ELSE IF ~Includes(st.out, conns[k])
         THEN ScanBelow(k + 1, conns,
                        [out |-> Append(st.out, conns[k]), queue |-> Append(st.queue, conns[k])])
         ELSE ScanBelow(k + 1, conns, st)

\* The while loop of getAllBelow.
RECURSIVE BelowLoop(_, _)
BelowLoop(st, lat) ==
    IF st.queue = <<>> THEN st.out
    ELSE LET current == Head(st.queue)
             rest == [out |-> st.out, queue |-> Tail(st.queue)]
             found == FindLat(lat, current)
         IN BelowLoop(IF found = 0 THEN rest
                      ELSE ScanBelow(1, lat[found].connections, rest), lat)

\* getAllBelow(target, lat): breadth-first along the connections of the
\* current element.
getAllBelow(target, lat) == BelowLoop([out |-> <<>>, queue |-> <<target>>], lat)

\* [...A].filter((x) => B.has(x))
Filter(s, B) == SelectSeq(s, LAMBDA x : x \in B)

\* findSupremum intersecting only the direct results of the scan of each
\* element's own row, without the transitive walk.
findSupremumDirect(a, b, lat) ==
    LET none == [out |-> <<>>, queue |-> <<>>]
        aAncestors == Dedup(<<a>> \o ScanAboveDirectOnly(1, a, none, lat).out)
        bAncestors == Range(<<b>> \o ScanAboveDirectOnly(1, b, none, lat).out)
        intersection == Filter(aAncestors, bAncestors)
    IN IF Len(intersection) > 0 THEN <<intersection[1]>> ELSE Null

findSupremum(a, b, lat) ==
    LET aAncestors == Dedup(<<a>> \o getAllAbove(a, lat))
        bAncestors == Range(<<b>> \o getAllAbove(b, lat))
        intersection == Filter(aAncestors, bAncestors)
    IN IF Len(intersection) > 0 THEN <<intersection[1]>> ELSE Null

findInfimum(a, b, lat) ==
    LET aDesc == Dedup(<<a>> \o getAllBelow(a, lat))
        bDesc == Range(<<b>> \o getAllBelow(b, lat))
        intersection == Filter(aDesc, bDesc)
    IN IF Len(intersection) > 0 THEN <<intersection[1]>> ELSE Null

\* The pairs (i, j), i < j, for which handleCheckBasicLattice finds the
\* supremum or the infimum falsy.
FailingPairs(lat) ==
    {t \in (DOMAIN lat) \X (DOMAIN lat) :
        /\ t[1] < t[2]
        /\ \/ Falsy(findSupremum(lat[t[1]].value, lat[t[2]].value, lat))
           \/ Falsy(findInfimum(lat[t[1]].value, lat[t[2]].value, lat))}

\* handleCheckBasicLattice testing !sup && !inf: a pair fails only when both
\* bounds are missing.
BasicLatticeVerdictBothMissing(lat) ==
    LET failing == {t \in (DOMAIN lat) \X (DOMAIN lat) :
                       /\ t[1] < t[2]
                       /\ Falsy(findSupremum(lat[t[1]].value, lat[t[2]].value, lat))
                       /\ Falsy(findInfimum(lat[t[1]].value, lat[t[2]].value, lat))}
    IN IF failing = {} THEN Msg("ValidLattice", <<>>)
       ELSE LET t == LexMin2(failing)
            IN Msg("NotLattice", <<lat[t[1]].value, lat[t[2]].value>>)

\* The message handleCheckBasicLattice leaves in the feedback line.
BasicLatticeVerdict(lat) ==
    LET failing == FailingPairs(lat)
    IN IF failing = {} THEN Msg("ValidLattice", <<>>)
       ELSE LET t == LexMin2(failing)
            IN Msg("NotLattice", <<lat[t[1]].value, lat[t[2]].value>>)

handleCheckBasicLattice ==
    /\ feedback' = [feedback EXCEPT !.lattice = BasicLatticeVerdict(lattice)]
    /\ UNCHANGED <<poset, lattice, elements, mapping, game>>

\* Array.prototype.join
RECURSIVE JoinWith(_, _)
JoinWith(s, sep) ==
    IF s = <<>> THEN ""
    ELSE IF Len(s) = 1 THEN s[1]
    ELSE s[1] \o sep \o JoinWith(Tail(s), sep)

\* bottomCandidates taking the closure in the other direction (getAllAbove).
bottomCandidatesAbove(lat) ==
    SelectSeq([i \in DOMAIN lat |-> lat[i].value],
              LAMBDA v : Cardinality(Range(getAllAbove(v, lat)) \cup {v}) = Len(lat))

\* The elements handleCheckBounded pushes on bottomCandidates, in list order:
\* new Set(getAllBelow(el)) plus el itself has as many members as the lattice
\* has elements.
bottomCandidates(lat) ==
    SelectSeq([i \in DOMAIN lat |-> lat[i].value],
              LAMBDA v : Cardinality(Range(getAllBelow(v, lat)) \cup {v}) = Len(lat))

\* The elements handleCheckBounded pushes on topCandidates: every other
\* element has el among itself and its getAllBelow.
topCandidates(lat) ==
    SelectSeq([i \in DOMAIN lat |-> lat[i].value],
              LAMBDA v : \A j \in DOMAIN lat :
                  lat[j].value = v
                  \/ v \in Range(<<lat[j].value>> \o getAllBelow(lat[j].value, lat)))

\* handleCheckBounded with the last two branches in the other order.
BoundedVerdictAmbiguousFirst(lat) ==
    LET bottoms == bottomCandidates(lat)
        tops == topCandidates(lat)
    IN IF Len(bottoms) = 1 /\ Len(tops) = 1
       THEN Msg("Bounded", <<bottoms[1], tops[1]>>)
       ELSE IF Len(bottoms) > 1 \/ Len(tops) > 1
       THEN Msg("Ambiguous", <<JoinWith(bottoms, ", "), JoinWith(tops, ", ")>>)
       ELSE Msg("NotBounded", <<>>)

\* The message handleCheckBounded leaves in the feedback line.
BoundedVerdict(lat) ==
    LET bottoms == bottomCandidates(lat)
        tops == topCandidates(lat)
    IN IF Len(bottoms) = 1 /\ Len(tops) = 1
       THEN Msg("Bounded", <<bottoms[1], tops[1]>>)
       ELSE IF Len(bottoms) = 0 \/ Len(tops) = 0
       THEN Msg("NotBounded", <<>>)
       ELSE Msg("Ambiguous", <<JoinWith(bottoms, ", "), JoinWith(tops, ", ")>>)

handleCheckBounded ==
    /\ feedback' = [feedback EXCEPT !.lattice = BoundedVerdict(lattice)]
    /\ UNCHANGED <<poset, lattice, elements, mapping, game>>

handleCheckDistributive ==
    /\ feedback' = [feedback EXCEPT !.lattice = Msg("DistributivityNotImplemented", <<>>)]
    /\ UNCHANGED <<poset, lattice, elements, mapping, game>>

\* ---- editing the lattice (lattices/LatticeGame.tsx)
\* How many connections the structure holds.
RECURSIVE NumEdges(_)
NumEdges(lat) ==
    IF lat = <<>> THEN 0 ELSE Len(Head(lat).connections) + NumEdges(Tail(lat))

\* lattice.map: the element named from gains the connection to, unless it
\* lists it already.
AddConnection(lat, from, to) ==
    [i \in DOMAIN lat |->
        IF lat[i].value = from /\ ~Includes(lat[i].connections, to)
        THEN [lat[i] EXCEPT !.connections = Append(@, to)]
        ELSE lat[i]]

handleAddElement(text) ==
    LET trimmed == Join(Trim(text))
    IN /\ UNCHANGED <<poset, elements, mapping, game>>
       /\ IF trimmed = ""
          THEN UNCHANGED <<lattice, feedback>>
          ELSE IF \E i \in DOMAIN lattice : lattice[i].value = trimmed
          THEN /\ feedback' = [feedback EXCEPT !.lattice = Msg("ElementExists", <<>>)]
               /\ UNCHANGED lattice
          ELSE /\ lattice' = Append(lattice, LatticeElement(trimmed, <<>>))
               /\ feedback' = [feedback EXCEPT !.lattice = Msg("ElementAdded", <<>>)]

\* handleAddConnection without the two "does not exist" checks.
handleAddConnectionUnchecked(text) ==
    LET parts == Split(Trim(text), "-")
        from == Part(parts, 1)
        to == Part(parts, 2)
    IN /\ UNCHANGED <<poset, elements, mapping, game>>
       /\ IF Falsy(from) \/ Falsy(to) \/ from = to
          THEN /\ feedback' = [feedback EXCEPT !.lattice = Msg("InvalidConnection", <<>>)]
               /\ UNCHANGED lattice
          ELSE /\ lattice' = AddConnection(lattice, from[1], to[1])
               /\ feedback' = [feedback EXCEPT !.lattice = Msg("ConnectionAdded", <<>>)]

handleAddConnection(text) ==
    LET parts == Split(Trim(text), "-")
        from == Part(parts, 1)
        to == Part(parts, 2)
    IN /\ UNCHANGED <<poset, elements, mapping, game>>
       /\ IF Falsy(from) \/ Falsy(to) \/ from = to
          THEN /\ feedback' = [feedback EXCEPT !.lattice = Msg("InvalidConnection", <<>>)]
               /\ UNCHANGED lattice
          ELSE IF ~ \E i \in DOMAIN lattice : lattice[i].value = from[1]
          THEN /\ feedback' = [feedback EXCEPT !.lattice = Msg("NoSuchElement", from)]
               /\ UNCHANGED lattice
          ELSE IF ~ \E i \in DOMAIN lattice : lattice[i].value = to[1]
          THEN /\ feedback' = [feedback EXCEPT !.lattice = Msg("NoSuchElement", to)]
               /\ UNCHANGED lattice
          ELSE /\ lattice' = AddConnection(lattice, from[1], to[1])
               /\ feedback' = [feedback EXCEPT !.lattice = Msg("ConnectionAdded", <<>>)]

\* React Flow's onConnect: source and target are node ids or null.
onConnect(source, target) ==
    /\ UNCHANGED <<poset, elements, mapping, feedback, game>>
    /\ IF Falsy(source) \/ Falsy(target)
       THEN UNCHANGED lattice
       ELSE lattice' = AddConnection(lattice, source[1], target[1])

handleLoadPuzzle ==
    /\ lattice' = puzzleLattice
    /\ feedback' = [feedback EXCEPT !.lattice = Msg("PuzzleLoaded", <<>>)]
    /\ UNCHANGED <<poset, elements, mapping, game>>

\* ---- simple variant of the lattice builder
\* addElement of the simple builder: the raw text is appended unless it is
\* empty or already an element.
LatticeGame_addElement(text) ==
    LET newElement == Join(text)
    IN /\ UNCHANGED <<poset, elements, mapping, game>>
       /\ IF newElement # "" /\ ~HasElement(lattice, newElement)
          THEN /\ lattice' = Append(lattice, LatticeElement(newElement, <<>>))
               /\ feedback' = [feedback EXCEPT !.lattice = Msg("SimpleElementAdded", <<>>)]
          ELSE /\ feedback' = [feedback EXCEPT !.lattice = Msg("SimpleInvalidElement", <<>>)]
               /\ UNCHANGED lattice

\* addConnection of the simple builder: "from-to" with both parts non-empty
\* and different; to is appended to the list of every element named from,
\* declared or not, listed already or not.
addConnection(text) ==
    LET parts == Split(text, "-")
        from == Part(parts, 1)
        to == Part(parts, 2)
    IN /\ UNCHANGED <<poset, elements, mapping, game>>
       /\ IF ~Falsy(from) /\ ~Falsy(to) /\ from # to
          THEN /\ lattice' = [i \in DOMAIN lattice |->
                                 IF lattice[i].value = from[1]
                                 THEN [lattice[i] EXCEPT !.connections = Append(@, to[1])]
                                 ELSE lattice[i]]
               /\ feedback' = [feedback EXCEPT !.lattice = Msg("SimpleConnectionAdded", <<>>)]
          ELSE /\ feedback' = [feedback EXCEPT !.lattice = Msg("SimpleInvalidConnection", <<>>)]
               /\ UNCHANGED lattice

\* findSupremum of the simple builder: the first element that lists both a
\* and b among its connections.
Simple_findSupremum(a, b, lat) ==
    LET candidates == {i \in DOMAIN lat :
                          Includes(lat[i].connections, a) /\ Includes(lat[i].connections, b)}
    IN IF candidates # {} THEN <<lat[Min(candidates)].value>> ELSE Null

\* lattice.find(el => el.value === v)?.connections || []
ConnectionsOf(lat, v) == IF FindLat(lat, v) = 0 THEN <<>> ELSE lat[FindLat(lat, v)].connections

\* findInfimum of the simple builder: the first connection of a that is also
\* a connection of b.
Simple_findInfimum(a, b, lat) ==
    LET commonConnections == Filter(Dedup(ConnectionsOf(lat, a)), Range(ConnectionsOf(lat, b)))
    IN IF Len(commonConnections) > 0 THEN <<commonConnections[1]>> ELSE Null

\* The message checkLatticeProperties leaves in the feedback line.
SimpleLatticeVerdict(lat) ==
    IF \E i, j \in DOMAIN lat :
          /\ i < j
          /\ \/ Falsy(Simple_findSupremum(lat[i].value, lat[j].value, lat))
             \/ Falsy(Simple_findInfimum(lat[i].value, lat[j].value, lat))
    THEN Msg("SimpleNotLattice", <<>>)
    ELSE Msg("SimpleValidLattice", <<>>)

checkLatticeProperties ==
    /\ feedback' = [feedback EXCEPT !.lattice = SimpleLatticeVerdict(lattice)]
    /\ UNCHANGED <<poset, lattice, elements, mapping, game>>

\* ---------------------------------------------------------------- permutation explorer
\* new Set(mapping).size
DistinctCount(s) == Cardinality(Range(s))

\* handleCheckPermutation comparing mapping.length, not the number of
\* distinct mapped values, with elements.length.
PermutationVerdictByLength(els, map) ==
    IF Len(map) # Len(els)
    THEN Msg("InvalidCodomain", <<>>)
    ELSE LET foreign == {i \in DOMAIN map : ~Includes(els, map[i])}
         IN IF foreign # {} THEN Msg("NotAnElement", <<map[Min(foreign)]>>)
            ELSE Msg("PermutationValid", <<>>)

\* The message handleCheckPermutation leaves in the feedback line: the
\* number of distinct mapped values must equal the number of elements, and
\* every mapped value must be an element (the first foreign one is named).
PermutationVerdict(els, map) ==
    IF DistinctCount(map) # Len(els)
    THEN Msg("InvalidCodomain", <<>>)
    ELSE LET foreign == {i \in DOMAIN map : ~Includes(els, map[i])}
         IN IF foreign # {} THEN Msg("NotAnElement", <<map[Min(foreign)]>>)
            ELSE Msg("PermutationValid", <<>>)

handleCheckPermutation ==
    /\ feedback' = [feedback EXCEPT !.perm = PermutationVerdict(elements, mapping)]
    /\ UNCHANGED <<poset, lattice, elements, mapping, game>>

\* Reading an array out of range gives undefined.
Undefined == "undefined"

\* s[i] with JavaScript's out-of-range result; index 0 stands for -1.
At(s, i) == IF i \in DOMAIN s THEN s[i] ELSE Undefined

\* gcd without its recursive step.
gcdFirstArgument(a, b) == a

\* gcd(a, b), Euclid's algorithm on non-negative integers.
RECURSIVE gcd(_, _)
gcd(a, b) == IF b = 0 THEN a ELSE gcd(b, a % b)

\* The while loop following the permutation backwards: the next index is
\* the one whose mapped value is elements[current].
RECURSIVE WalkCycleBackwards(_, _, _, _, _)
WalkCycleBackwards(els, perm, current, visited, cycle) ==
    IF current \in visited THEN [cycle |-> cycle, visited |-> visited]
    ELSE WalkCycleBackwards(els, perm, IndexOf(perm, At(els, current)),
                            visited \cup {current}, Append(cycle, At(els, current)))

\* The while loop of computeCycles: from current, push elements[current] and
\* move to the index of permutation[current] until a visited index is met.
\* The result is the cycle and the visited set.
RECURSIVE WalkCycle(_, _, _, _, _)
WalkCycle(els, perm, current, visited, cycle) ==
    IF current \in visited THEN [cycle |-> cycle, visited |-> visited]
    ELSE WalkCycle(els, perm, IndexOf(els, At(perm, current)),
                   visited \cup {current}, Append(cycle, At(els, current)))

\* The for loop pushing only the cycles longer than 1.
RECURSIVE CyclesLoopSkippingFixed(_, _, _, _, _)
CyclesLoopSkippingFixed(els, perm, i, visited, cycles) ==
    IF i > Len(els) THEN cycles
    ELSE IF i \in visited THEN CyclesLoopSkippingFixed(els, perm, i + 1, visited, cycles)
    ELSE LET w == WalkCycle(els, perm, i, visited, <<>>)
         IN CyclesLoopSkippingFixed(els, perm, i + 1, w.visited,
               IF Len(w.cycle) > 1 THEN Append(cycles, w.cycle) ELSE cycles)

\* The for loop of computeCycles from index i on; cycles of length 1 are
\* pushed like the others.
RECURSIVE CyclesLoop(_, _, _, _, _)
CyclesLoop(els, perm, i, visited, cycles) ==
    IF i > Len(els) THEN cycles
    ELSE IF i \in visited THEN CyclesLoop(els, perm, i + 1, visited, cycles)
    ELSE LET w == WalkCycle(els, perm, i, visited, <<>>)
         IN CyclesLoop(els, perm, i + 1, w.visited, Append(cycles, w.cycle))

\* computeCycles started at every index, visited or not.
computeCyclesRevisiting(els, perm) ==
    [i \in DOMAIN els |-> WalkCycle(els, perm, i, {}, <<>>).cycle]

\* computeCycles(elements, permutation): the cycle decomposition, a list of
\* lists of labels.
computeCycles(els, perm) == CyclesLoop(els, perm, 1, {}, <<>>)

\* cycles.map((c) => c.length)
Lengths(cycles) == [i \in DOMAIN cycles |-> Len(cycles[i])]

\* The reduction with the product of the lengths as the result.
RECURSIVE permutationOrderProduct(_, _)
permutationOrderProduct(lengths, acc) ==
    IF lengths = <<>> THEN acc
    ELSE permutationOrderProduct(Tail(lengths), acc * Head(lengths))

\* lengths.reduce((acc, len) => (acc * len) / gcd(acc, len), acc)
RECURSIVE permutationOrder(_, _)
permutationOrder(lengths, acc) ==
    IF lengths = <<>> THEN acc
    ELSE permutationOrder(Tail(lengths), (acc * Head(lengths)) \div gcd(acc, Head(lengths)))

\* handleCalculateOrder comparing mapping.length, not the number of distinct
\* mapped values, with elements.length.
OrderVerdictByLength(els, map) ==
    IF Len(map) # Len(els)
    THEN Msg("CannotCalculate", <<>>)
    ELSE LET cycles == computeCycles(els, map)
         IN Msg("Order", <<cycles, permutationOrder(Lengths(cycles), 1)>>)

\* The message handleCalculateOrder leaves in the feedback line: the cycles
\* and the order, or the refusal when the number of distinct mapped values
\* differs from the number of elements.
OrderVerdict(els, map) ==
    IF DistinctCount(map) # Len(els)
    THEN Msg("CannotCalculate", <<>>)
    ELSE LET cycles == computeCycles(els, map)
         IN Msg("Order", <<cycles, permutationOrder(Lengths(cycles), 1)>>)

handleCalculateOrder ==
    /\ feedback' = [feedback EXCEPT !.perm = OrderVerdict(elements, mapping)]
    /\ UNCHANGED <<poset, lattice, elements, mapping, game>>

\* ---- editing the permutation
\* String.prototype.toUpperCase on one character.
UpperChar(c) ==
    CASE c = "a" -> "A" [] c = "b" -> "B" [] c = "c" -> "C" [] c = "d" -> "D"
      [] c = "e" -> "E" [] c = "f" -> "F" [] OTHER -> c

\* String.prototype.toUpperCase
ToUpperCase(cs) == [i \in DOMAIN cs |-> UpperChar(cs[i])]

\* handleAddElement comparing the text as typed, and storing it upper-cased.
PermutationGame_handleAddElementAsTyped(text) ==
    LET el == Join(ToUpperCase(Trim(text)))
    IN /\ UNCHANGED <<poset, lattice, game>>
       /\ IF el = ""
          THEN /\ feedback' = [feedback EXCEPT !.perm = Msg("InvalidElementName", <<>>)]
               /\ UNCHANGED <<elements, mapping>>
          ELSE IF Includes(elements, Join(Trim(text)))
          THEN /\ feedback' = [feedback EXCEPT !.perm = Msg("ElementExists", <<el>>)]
               /\ UNCHANGED <<elements, mapping>>
          ELSE /\ elements' = Append(elements, el)
               /\ mapping' = Append(mapping, el)
               /\ feedback' = [feedback EXCEPT !.perm = Msg("ElementAdded", <<el>>)]

\* handleAddElement of the permutation explorer: the text is trimmed and
\* upper-cased; a new element is appended and mapped to itself.
PermutationGame_handleAddElement(text) ==
    LET el == Join(ToUpperCase(Trim(text)))
    IN /\ UNCHANGED <<poset, lattice, game>>
       /\ IF el = ""
          THEN /\ feedback' = [feedback EXCEPT !.perm = Msg("InvalidElementName", <<>>)]
               /\ UNCHANGED <<elements, mapping>>
          ELSE IF Includes(elements, el)
          THEN /\ feedback' = [feedback EXCEPT !.perm = Msg("ElementExists", <<el>>)]
               /\ UNCHANGED <<elements, mapping>>
          ELSE /\ elements' = Append(elements, el)
               /\ mapping' = Append(mapping, el)
               /\ feedback' = [feedback EXCEPT !.perm = Msg("ElementAdded", <<el>>)]

\* handleChangeMapping(idx, newValue): the select of column idx picks newValue.
handleChangeMapping(idx, newValue) ==
    /\ mapping' = [mapping EXCEPT ![idx] = newValue]
    /\ feedback' = [feedback EXCEPT !.perm = NoFeedback]
    /\ UNCHANGED <<poset, lattice, elements, game>>

\* ---------------------------------------------------------------- inputs
\* The labels of a set of indices as a list, ascending or descending.
RECURSIVE RowSeq(_, _)
RowSeq(S, rev) ==
    IF S = {} THEN <<>>
    ELSE LET m == IF rev THEN CHOOSE x \in S : \A y \in S : y <= x ELSE Min(S)
         IN <<Labels[m]>> \o RowSeq(S \ {m}, rev)

\* The structure with elements Labels[1..n] and the pairs R, every relation
\* list ascending (rev = FALSE) or descending (rev = TRUE).
PosetOf(n, R, rev) ==
    [i \in 1..n |-> PosetElement(Labels[i], RowSeq({j \in 1..n : <<i, j>> \in R}, rev))]

NoFeedbacks == [poset |-> NoFeedback, lattice |-> NoFeedback, perm |-> NoFeedback]

\* ---------------------------------------------------------------- specifications
\* The poset checks as functions of an arbitrary relation whose targets are
\* declared elements.
InitPosetFn ==
    /\ \E n \in 0..MaxElems : \E R \in SUBSET ((1..n) \X (1..n)) : \E rev \in BOOLEAN :
          poset = PosetOf(n, R, rev)
    /\ lattice = <<>>
    /\ elements = <<>>
    /\ mapping = <<>>
    /\ feedback = NoFeedbacks
    /\ game = ""

NextPosetFn == handleCheckPoset \/ checkPosetProperties

SpecPosetFn == InitPosetFn /\ [][NextPosetFn]_vars

\* The same structure as the lattice builder holds it.
AsLattice(p) == [i \in DOMAIN p |-> LatticeElement(p[i].value, p[i].relations)]

\* ---- the closure utilities on every relation
\* Every relation with declared targets on up to MaxElems elements and up to
\* MaxEdges connections, cyclic ones included, each connection list ascending
\* or descending.
InitClosureFn ==
    /\ \E n \in 0..MaxElems : \E R \in SUBSET ((1..n) \X (1..n)) : \E rev \in BOOLEAN :
          /\ Cardinality(R) <= MaxEdges
          /\ lattice = AsLattice(PosetOf(n, R, rev))
    /\ poset = <<>>
    /\ elements = <<>>
    /\ mapping = <<>>
    /\ feedback = NoFeedbacks
    /\ game = ""

\* The callers of getAllBelow and getAllAbove.
NextClosureFn == handleCheckBounded \/ handleCheckBasicLattice

SpecClosureFn == InitClosureFn /\ [][NextClosureFn]_vars

\* ---- the POSET check and the bounded check on one relation
\* Every relation on up to MaxElems elements with up to MaxEdges pairs of
\* distinct elements, with every self-pair or none, held by the POSET builder
\* and by the lattice builder alike.
InitOrderFn ==
    /\ \E n \in 0..MaxElems :
       \E S \in SUBSET {t \in (1..n) \X (1..n) : t[1] # t[2]} :
       \E refl \in BOOLEAN : \E rev \in BOOLEAN :
          /\ Cardinality(S) <= MaxEdges
          /\ poset = PosetOf(n, S \cup (IF refl THEN {<<i, i>> : i \in 1..n} ELSE {}), rev)
          /\ lattice = AsLattice(poset)
    /\ elements = <<>>
    /\ mapping = <<>>
    /\ feedback = NoFeedbacks
    /\ game = ""

NextOrderFn == handleCheckPoset \/ handleCheckBounded

SpecOrderFn == InitOrderFn /\ [][NextOrderFn]_vars

\* ---- the lattice builder as a state machine
\* What the user may type into the element field.
ElementTexts == { <<>>, <<" ", " ">>, <<"E">>, <<" ", "E", " ">> }

\* The labels on screen, and one that is not.
LatticeValues == {lattice[i].value : i \in DOMAIN lattice}

\* What the user may type into the connection field: every pair of labels on
\* screen, a pair with an undeclared end, and malformed texts.
ConnectionTexts ==
    { <<a, "-", b>> : a \in LatticeValues, b \in LatticeValues }
    \cup { <<"Z", "-", lattice[1].value>>, <<lattice[1].value, "-", "Z">> }
    \cup { <<>>, <<"A">>, <<"-", "Q">>, <<"P", "-">>, <<" ", "P", "-", "R", " ">>,
           <<"Q", "-", "P", "-", "R">> }

\* The ends of a drag: two nodes, or a drag that misses a handle.
Drags ==
    { <<<<a>>, <<b>>>> : a \in LatticeValues, b \in LatticeValues }
    \cup { <<Null, <<lattice[1].value>>>>, <<<<lattice[1].value>>, Null>> }

InitLattice ==
    /\ lattice = initialLattice
    /\ poset = <<>>
    /\ elements = <<>>
    /\ mapping = <<>>
    /\ feedback = NoFeedbacks
    /\ game = "lattices"

NextLattice ==
    \/ game = "lattices" /\ \E text \in ElementTexts : handleAddElement(text)
    \/ game = "lattices" /\ \E text \in ConnectionTexts : handleAddConnection(text) /\ NumEdges(lattice') <= MaxEdges
    \/ game = "lattices" /\ \E d \in Drags : onConnect(d[1], d[2]) /\ NumEdges(lattice') <= MaxEdges
    \/ game = "lattices" /\ handleLoadPuzzle
    \/ game = "lattices" /\ handleCheckBasicLattice
    \/ game = "lattices" /\ handleCheckBounded
    \/ game = "lattices" /\ handleCheckDistributive

SpecLattice == InitLattice /\ [][NextLattice]_vars

\* ---- the five components as a state machine
\* The labels on the POSET screen.
PosetValues == {poset[i].value : i \in DOMAIN poset}

\* What the user may type into the relation field: every pair of labels on
\* screen (a label with itself included), a pair with an undeclared end, and
\* malformed texts.
RelationTexts ==
    { <<a, "-", b>> : a \in PosetValues, b \in PosetValues }
    \cup { <<"Z", "-", poset[1].value>>, <<poset[1].value, "-", "Z">> }
    \cup { <<>>, <<"A">>, <<"-", "Q">>, <<"P", "-">>, <<" ", "P", "-", "R", " ">> }

\* The ends of a drag on the POSET graph.
PosetDrags ==
    { <<<<a>>, <<b>>>> : a \in PosetValues, b \in PosetValues }
    \cup { <<Null, <<poset[1].value>>>>, <<<<poset[1].value>>, Null>> }

\* What the user may type into the element field of a simple builder, which
\* does not trim: nothing, a new label, an existing one.
SimpleElementTexts == { <<>>, <<"E">>, <<"A">> }

\* What the user may type into the relation or connection field of a simple
\* builder showing the labels values, the first of them being first: the
\* first label with every label (itself included) and with an undeclared one,
\* an undeclared or later-added source, and malformed or untrimmed texts.
SimpleTexts(values, first) ==
    { <<first, "-", b>> : b \in values \cup {"Z"} }
    \cup { <<"Z", "-", first>>, <<"E", "-", first>> }
    \cup { <<>>, <<"A">>, <<"-", "Q">>, <<"P", "-">>, <<" ", first, "-", "D">> }

\* What the user may type into the element field of the permutation explorer.
PermutationTexts == { <<>>, <<" ">>, <<"a">>, <<"d">>, <<" ", "D", " ">> }

\* The component a page mounts.
Games == {"posets", "posets-simple", "lattices", "lattices-simple", "permutations"}

InitEditors ==
    /\ game \in Games
    /\ poset = IF game \in {"posets", "posets-simple"} THEN initialPoset ELSE <<>>
    /\ lattice = IF game \in {"lattices", "lattices-simple"} THEN initialLattice ELSE <<>>
    /\ elements = IF game = "permutations" THEN <<"A", "B", "C">> ELSE <<>>
    /\ mapping = IF game = "permutations" THEN <<"B", "C", "A">> ELSE <<>>
    /\ feedback = NoFeedbacks

NextPoset ==
    \/ game = "posets" /\ \E text \in ElementTexts : PosetGame_handleAddElement(text)
    \/ game = "posets" /\ \E text \in RelationTexts : handleAddRelation(text) /\ NumRelations(poset') <= MaxEdges
    \/ game = "posets" /\ \E d \in PosetDrags : PosetGame_onConnect(d[1], d[2]) /\ NumRelations(poset') <= MaxEdges
    \/ game = "posets" /\ PosetGame_handleLoadPuzzle
    \/ game = "posets" /\ handleCheckPoset

NextSimplePoset ==
    \/ game = "posets-simple" /\ \E text \in SimpleElementTexts : addElement(text)
    \/ game = "posets-simple" /\ \E text \in SimpleTexts(PosetValues, poset[1].value) : addRelation(text) /\ NumRelations(poset') <= MaxSimpleEdges
    \/ game = "posets-simple" /\ checkPosetProperties

NextSimpleLattice ==
    \/ game = "lattices-simple" /\ \E text \in SimpleElementTexts : LatticeGame_addElement(text)
    \/ game = "lattices-simple" /\ \E text \in SimpleTexts(LatticeValues, lattice[1].value) : addConnection(text) /\ NumEdges(lattice') <= MaxSimpleEdges
    \/ game = "lattices-simple" /\ checkLatticeProperties

NextPermutation ==
    \/ game = "permutations" /\ \E text \in PermutationTexts :
                PermutationGame_handleAddElement(text)
    \/ game = "permutations" /\ \E idx \in DOMAIN mapping : \E newValue \in Range(elements) :
                handleChangeMapping(idx, newValue)
    \/ game = "permutations" /\ handleCheckPermutation
    \/ game = "permutations" /\ handleCalculateOrder

NextEditors ==
    NextPoset \/ NextSimplePoset \/ NextLattice \/ NextSimpleLattice \/ NextPermutation

SpecEditors == InitEditors /\ [][NextEditors]_vars

\* ---- the graph-based POSET builder alone, with room to complete the puzzle
\* What the user may type into the element field here: nothing, and a label
\* that is on screen.
ExistingElementTexts == { <<>>, <<" ", poset[1].value, " ">> }

InitPosetEditor ==
    /\ game = "posets"
    /\ poset = initialPoset
    /\ lattice = <<>>
    /\ elements = <<>>
    /\ mapping = <<>>
    /\ feedback = NoFeedbacks

NextPosetEditor ==
    \/ \E text \in ExistingElementTexts : PosetGame_handleAddElement(text)
    \/ \E text \in RelationTexts : handleAddRelation(text) /\ NumRelations(poset') <= MaxPosetEdges
    \/ \E d \in PosetDrags : PosetGame_onConnect(d[1], d[2]) /\ NumRelations(poset') <= MaxPosetEdges
    \/ PosetGame_handleLoadPuzzle
    \/ handleCheckPoset

SpecPosetEditor == InitPosetEditor /\ [][NextPosetEditor]_vars

\* ---- the example order A<=A,B,C,D; B<=B,D; C<=C,D; D<=D
\* Every arrangement of a set as a list.
Arrangements(S) ==
    {f \in [1..Cardinality(S) -> S] : \A i, j \in 1..Cardinality(S) : f[i] = f[j] => i = j}

\* The example handed to both builders, its relation lists in any order.
InitExample ==
    /\ \E ra \in Arrangements({"A", "B", "C", "D"}), rb \in Arrangements({"B", "D"}),
          rc \in Arrangements({"C", "D"}) :
          poset = << PosetElement("A", ra), PosetElement("B", rb),
                     PosetElement("C", rc), PosetElement("D", <<"D">>) >>
    /\ lattice = AsLattice(poset)
    /\ elements = <<>>
    /\ mapping = <<>>
    /\ feedback = NoFeedbacks
    /\ game = ""

NextExample == handleCheckPoset \/ handleCheckBounded \/ handleCheckBasicLattice

SpecExample == InitExample /\ [][NextExample]_vars

\* Elements Labels[1..n] and a mapping of the same length whose values are
\* elements or the one label past them.
InitPermFn ==
    /\ \E n \in 0..MaxPerm :
          /\ elements = [i \in 1..n |-> Labels[i]]
          /\ mapping \in [1..n -> {Labels[i] : i \in 1..(n + 1)}]
    /\ poset = <<>>
    /\ lattice = <<>>
    /\ feedback = NoFeedbacks
    /\ game = ""

NextPermFn == handleCheckPermutation \/ handleCalculateOrder

SpecPermFn == InitPermFn /\ [][NextPermFn]_vars

\* ================================================================ properties
\* The relation a structure denotes, as a set of pairs over its element set.
ElemsOf(p) == {p[i].value : i \in DOMAIN p}

PairsOf(p) == UNION { {<<p[i].value, r>> : r \in Range(p[i].relations)} : i \in DOMAIN p }

Reflexive(E, R) == \A a \in E : <<a, a>> \in R

Antisymmetric(E, R) == \A a, b \in E : (a # b /\ <<a, b>> \in R) => <<b, a>> \notin R

Transitive(E, R) ==
    \A a, b, c \in E : (<<a, b>> \in R /\ <<b, c>> \in R) => <<a, c>> \in R

IsPartialOrder(p) ==
    /\ Reflexive(ElemsOf(p), PairsOf(p))
    /\ Antisymmetric(ElemsOf(p), PairsOf(p))
    /\ Transitive(ElemsOf(p), PairsOf(p))

GraphPosetKinds == {"NotReflexive", "NotAntisymmetric", "NotTransitive", "ValidPOSET"}

SimplePosetKinds == {"NotValidPoset", "ValidPoset"}

\* C1: after either poset check has run on a relation whose targets are all
\* declared elements, the feedback says "valid" exactly when the relation is
\* reflexive, antisymmetric and transitive over all elements, pairs and triples.
C1_ValidIffPartialOrder ==
    /\ feedback.poset.kind \in GraphPosetKinds =>
          (feedback.poset.kind = "ValidPOSET" <=> IsPartialOrder(poset))
    /\ feedback.poset.kind \in SimplePosetKinds =>
          (feedback.poset.kind = "ValidPoset" <=> IsPartialOrder(poset))

\* A three-element chain A <= B <= C found valid by handleCheckPoset.
C1_Witness ==
    /\ feedback.poset.kind = "ValidPOSET"
    /\ Len(poset) = 3
    /\ {<<"A", "B">>, <<"B", "C">>, <<"A", "C">>} \subseteq PairsOf(poset)

\* The first element, in enumeration order, that lacks its self-pair.
FirstIrreflexive(p) ==
    CHOOSE v \in ElemsOf(p) :
       /\ <<v, v>> \notin PairsOf(p)
       /\ \A i \in DOMAIN p : i < FindIdx(p, v) => <<p[i].value, p[i].value>> \in PairsOf(p)

\* C2: handleCheckPoset reports one violation in the order reflexivity,
\* antisymmetry, transitivity: NotReflexive, naming the first element without
\* its self-pair, whenever the relation is not reflexive; NotAntisymmetric only
\* for a reflexive relation; NotTransitive only for a reflexive and
\* antisymmetric one.
C2_FirstViolationInOrder ==
    feedback.poset.kind \in GraphPosetKinds =>
       LET E == ElemsOf(poset)
           R == PairsOf(poset)
       IN /\ ~Reflexive(E, R) =>
                feedback.poset = Msg("NotReflexive", <<FirstIrreflexive(poset)>>)
          /\ feedback.poset.kind = "NotAntisymmetric" =>
                Reflexive(E, R) /\ ~Antisymmetric(E, R)
          /\ feedback.poset.kind = "NotTransitive" =>
                Reflexive(E, R) /\ Antisymmetric(E, R) /\ ~Transitive(E, R)

\* A relation over [A, B, C] that misses only (B, B) among the self-pairs and
\* is not antisymmetric either: B is reported.
C2_Witness ==
    /\ feedback.poset = Msg("NotReflexive", <<"B">>)
    /\ Len(poset) = 3
    /\ {v \in ElemsOf(poset) : <<v, v>> \notin PairsOf(poset)} = {"B"}
    /\ ~Antisymmetric(ElemsOf(poset), PairsOf(poset))

ValuesOf(lat) == {lat[i].value : i \in DOMAIN lat}

\* The connections x -> y of a structure: x <= y, y is above x.
ConnOf(lat) == UNION { {<<lat[i].value, c>> : c \in Range(lat[i].connections)} : i \in DOMAIN lat }

\* S and everything a path of connections R leads to from S.
RECURSIVE ReachFrom(_, _)
ReachFrom(R, S) ==
    LET next == S \cup {e[2] : e \in {d \in R : d[1] \in S}}
    IN IF next = S THEN S ELSE ReachFrom(R, next)

\* a and everything above it (a path of zero or more connections from a).
UpSet(lat, a) == ReachFrom(ConnOf(lat), {a})

\* a and everything below it (a path of zero or more connections to a).
DownSet(lat, a) == ReachFrom({<<e[2], e[1]>> : e \in ConnOf(lat)}, {a})

\* No element is reached from itself by one or more connections.
Acyclic(lat) ==
    \A e \in ConnOf(lat) : e[1] \notin ReachFrom(ConnOf(lat), {e[2]})

\* The pairs i < j for which findSupremum or findInfimum is null.
PairsMissingABound(lat) ==
    {t \in (DOMAIN lat) \X (DOMAIN lat) :
        /\ t[1] < t[2]
        /\ \/ findSupremum(lat[t[1]].value, lat[t[2]].value, lat) = Null
           \/ findInfimum(lat[t[1]].value, lat[t[2]].value, lat) = Null}

\* C4: in every state of the lattice builder, the message of
\* handleCheckBasicLattice is "valid lattice" exactly when findSupremum and
\* findInfimum are both non-null for every pair i < j, and otherwise names the
\* failing pair that comes first with outer index i and inner index j.
C4_LatticeIffEveryPairBounded ==
    LET v == BasicLatticeVerdict(lattice)
        bad == PairsMissingABound(lattice)
    IN /\ v.kind = "ValidLattice" <=> bad = {}
       /\ bad # {} =>
             \E t \in bad :
                /\ v = Msg("NotLattice", <<lattice[t[1]].value, lattice[t[2]].value>>)
                /\ \A u \in bad : t[1] < u[1] \/ (t[1] = u[1] /\ t[2] <= u[2])

\* handleCheckBasicLattice has just named (P, E) although (Q, E) and (R, E)
\* fail as well.
C4_Witness ==
    /\ feedback.lattice = Msg("NotLattice", <<"P", "E">>)
    /\ feedback.lattice = BasicLatticeVerdict(lattice)
    /\ Cardinality(PairsMissingABound(lattice)) >= 2

\* C5: with x -> y meaning x <= y, findSupremum(a, b) is non-null exactly
\* when some element is above both a and b, and findInfimum(a, b) is non-null
\* exactly when some element is below both.
C5_BoundsFollowTheOrder ==
    \A i, j \in DOMAIN lattice :
       LET a == lattice[i].value
           b == lattice[j].value
       IN /\ findSupremum(a, b, lattice) # Null <=>
                UpSet(lattice, a) \cap UpSet(lattice, b) # {}
          /\ findInfimum(a, b, lattice) # Null <=>
                DownSet(lattice, a) \cap DownSet(lattice, b) # {}

\* C6: on an acyclic relation, the element findSupremum or findInfimum
\* returns is the extremal member of the intersection it was taken from:
\* every member of the intersection is reached from it by going on in the
\* direction of the traversal (getAllAbove walks connections backwards,
\* getAllBelow forwards).
C6_ReturnedBoundIsExtremal ==
    Acyclic(lattice) =>
       \A i, j \in DOMAIN lattice :
          LET a == lattice[i].value
              b == lattice[j].value
              sup == findSupremum(a, b, lattice)
              inf == findInfimum(a, b, lattice)
          IN /\ sup # Null =>
                   (DownSet(lattice, a) \cap DownSet(lattice, b)) \subseteq DownSet(lattice, sup[1])
             /\ inf # Null =>
                   (UpSet(lattice, a) \cap UpSet(lattice, b)) \subseteq UpSet(lattice, inf[1])

BottomCount(lat) == Len(bottomCandidates(lat))

TopCount(lat) == Len(topCandidates(lat))

\* C7 as claimed: Bounded exactly for one bottom and one top candidate,
\* Unbounded whenever a candidate list is empty, Ambiguous whenever a candidate
\* list has more than one member, the other list being empty or not.
C7_AmbiguousEvenIfOtherEmpty ==
    LET k == BoundedVerdict(lattice).kind
        nb == BottomCount(lattice)
        nt == TopCount(lattice)
    IN /\ k = "Bounded" <=> (nb = 1 /\ nt = 1)
       /\ (nb = 0 \/ nt = 0) => k = "NotBounded"
       /\ (nb > 1 \/ nt > 1) => k = "Ambiguous"

\* C7, amended: Bounded exactly for one bottom and one top candidate, naming
\* them; Unbounded whenever a candidate list is empty, even if the other has
\* several members; Ambiguous whenever neither list is empty and one of them
\* has more than one member.
C7_BoundedVerdictCases ==
    LET v == BoundedVerdict(lattice)
        bottoms == bottomCandidates(lattice)
        tops == topCandidates(lattice)
        nb == Len(bottoms)
        nt == Len(tops)
    IN /\ v.kind = "Bounded" <=> (nb = 1 /\ nt = 1)
       /\ v.kind = "Bounded" => v.args = <<bottoms[1], tops[1]>>
       /\ (nb = 0 \/ nt = 0) <=> v.kind = "NotBounded"
       /\ ((nb > 1 \/ nt > 1) /\ nb # 0 /\ nt # 0) <=> v.kind = "Ambiguous"

\* handleCheckBounded has just reported "not bounded" with two bottom
\* candidates and no top candidate.
C7_Witness ==
    /\ feedback.lattice = Msg("NotBounded", <<>>)
    /\ BottomCount(lattice) = 2
    /\ TopCount(lattice) = 0

\* C8: in every state of the lattice builder, an element is a bottom candidate
\* of handleCheckBounded exactly when it and everything reachable from it make
\* up the whole element set, and a top candidate exactly when every other
\* element reaches it.
C8_CandidatesAreReachability ==
    LET bottoms == bottomCandidates(lattice)
        tops == topCandidates(lattice)
    IN \A i \in DOMAIN lattice :
          LET v == lattice[i].value
          IN /\ Includes(bottoms, v) <=> UpSet(lattice, v) = ValuesOf(lattice)
             /\ Includes(tops, v) <=>
                   \A u \in ValuesOf(lattice) \ {v} : v \in UpSet(lattice, u)

\* handleCheckBounded has just run on a structure with a cycle through P and
\* an element E that only P and Q reach: P and Q are the bottom candidates.
C8_Witness ==
    /\ feedback.lattice = BoundedVerdict(lattice)
    /\ feedback.lattice.kind \in {"Bounded", "NotBounded", "Ambiguous"}
    /\ bottomCandidates(lattice) = <<"P", "Q">>
    /\ Len(lattice) = 4

\* ---- the example order
\* C9: on A<=A,B,C,D; B<=B,D; C<=C,D; D<=D over [A, B, C, D], whatever the
\* order of the relation lists, handleCheckPoset reports a valid POSET,
\* handleCheckBounded reports Bounded with bottom A and top D, and
\* handleCheckBasicLattice reports a valid lattice.
C9_ExampleIsBoundedLattice ==
    /\ PosetVerdict(poset) = Msg("ValidPOSET", <<>>)
    /\ BoundedVerdict(lattice) = Msg("Bounded", <<"A", "D">>)
    /\ BasicLatticeVerdict(lattice) = Msg("ValidLattice", <<>>)
    /\ feedback.poset.kind # "" => feedback.poset = Msg("ValidPOSET", <<>>)
    /\ feedback.lattice.kind # "" =>
          feedback.lattice \in {Msg("Bounded", <<"A", "D">>), Msg("ValidLattice", <<>>)}

\* Both builders have checked the example, A's list being D, C, B, A.
C9_Witness ==
    /\ PairsOf(poset) = {<<"A", "A">>, <<"A", "B">>, <<"A", "C">>, <<"A", "D">>,
                         <<"B", "B">>, <<"B", "D">>, <<"C", "C">>, <<"C", "D">>,
                         <<"D", "D">>}
    /\ poset[1].relations = <<"D", "C", "B", "A">>
    /\ feedback.poset = Msg("ValidPOSET", <<>>)
    /\ feedback.lattice = Msg("Bounded", <<"A", "D">>)

\* ---- permutation explorer
\* mapping lists every element exactly once and nothing else.
IsRearrangement(els, map) ==
    /\ Len(map) = Len(els)
    /\ \A e \in Range(els) : Cardinality({i \in DOMAIN map : map[i] = e}) = 1
    /\ Range(map) \subseteq Range(els)

\* The messages of handleCheckPermutation.
PermutationCheckKinds == {"InvalidCodomain", "NotAnElement", "PermutationValid"}

\* C10: for unique elements and a mapping of the same length,
\* handleCheckPermutation reports "Permutation is valid!" exactly when mapping
\* is a rearrangement of elements; [A, B, C] with [A, A, C] is reported invalid.
C10_ValidIffRearrangement ==
    feedback.perm.kind \in PermutationCheckKinds =>
       (feedback.perm.kind = "PermutationValid" <=> IsRearrangement(elements, mapping))

\* handleCheckPermutation has rejected [A, B, C] with mapping [A, A, C].
C10_Witness ==
    /\ elements = <<"A", "B", "C">>
    /\ mapping = <<"A", "A", "C">>
    /\ feedback.perm = Msg("InvalidCodomain", <<>>)

\* ---- cycles and order
\* handleCalculateOrder has just reported on a valid permutation.
OrderReported == feedback.perm.kind = "Order" /\ IsRearrangement(elements, mapping)

\* The positions <<c, i>> of a list of cycles.
Positions(cycles) == UNION { {<<c, i>> : i \in DOMAIN cycles[c]} : c \in DOMAIN cycles }

\* C11: for a valid permutation the cycles partition the element set: every
\* element is at exactly one position of exactly one cycle, every entry of a
\* cycle is an element, and a fixed point is a cycle of length 1.
C11_CyclesPartitionElements ==
    OrderReported =>
       LET cycles == feedback.perm.args[1]
       IN /\ \A e \in Range(elements) :
                Cardinality({p \in Positions(cycles) : cycles[p[1]][p[2]] = e}) = 1
          /\ \A p \in Positions(cycles) : cycles[p[1]][p[2]] \in Range(elements)
          /\ \A c \in DOMAIN cycles : cycles[c] # <<>>
          /\ \A i \in DOMAIN elements :
                mapping[i] = elements[i] => \E c \in DOMAIN cycles : cycles[c] = <<elements[i]>>

\* The cycles of [A, B, C, D] with [B, A, C, D]: one 2-cycle and two fixed points.
C11_Witness ==
    /\ elements = <<"A", "B", "C", "D">>
    /\ mapping = <<"B", "A", "C", "D">>
    /\ feedback.perm.kind = "Order"
    /\ feedback.perm.args[1] = << <<"A", "B">>, <<"C">>, <<"D">> >>

\* C12: for a valid permutation, each cycle (e0, ..., ek-1) has the permutation
\* send ei to e((i+1) mod k), starts at its lowest-index element, and the
\* cycles are listed by increasing starting index; [A,B,C] with [B,C,A] gives
\* (A B C) and order 3, [A,B,C,D] with [B,A,D,C] gives (A B), (C D) and order 2.
C12_CyclesFollowTheMapping ==
    OrderReported =>
       LET cycles == feedback.perm.args[1]
           order == feedback.perm.args[2]
           idx(e) == IndexOf(elements, e)
       IN /\ \A c \in DOMAIN cycles :
                LET k == Len(cycles[c])
                IN /\ k > 0
                   /\ \A i \in 1..k : mapping[idx(cycles[c][i])] = cycles[c][(i % k) + 1]
                   /\ \A i \in 2..k : idx(cycles[c][1]) < idx(cycles[c][i])
          /\ \A c, d \in DOMAIN cycles : c < d => idx(cycles[c][1]) < idx(cycles[d][1])
          /\ (elements = <<"A", "B", "C">> /\ mapping = <<"B", "C", "A">>) =>
                (cycles = << <<"A", "B", "C">> >> /\ order = 3)
          /\ (elements = <<"A", "B", "C", "D">> /\ mapping = <<"B", "A", "D", "C">>) =>
                (cycles = << <<"A", "B">>, <<"C", "D">> >> /\ order = 2)

\* handleCalculateOrder has reported on [A,B,C,D] with the 3-cycle [C,B,D,A].
C12_Witness ==
    /\ elements = <<"A", "B", "C", "D">>
    /\ mapping = <<"C", "B", "D", "A">>
    /\ feedback.perm = Msg("Order", << << <<"A", "C", "D">>, <<"B">> >>, 3 >>)

\* The element index i is sent to by k applications of the mapping.
RECURSIVE ApplyTimes(_, _, _, _)
ApplyTimes(els, map, k, i) ==
    IF k = 0 THEN i ELSE ApplyTimes(els, map, k - 1, IndexOf(els, map[i]))

\* k applications of the mapping return every element to itself.
IsIdentityPower(els, map, k) == \A i \in DOMAIN els : ApplyTimes(els, map, k, i) = i

\* C13: for a valid permutation the reported order is the smallest positive
\* k such that applying the permutation k times returns every element to itself.
C13_OrderIsSmallestIdentityPower ==
    OrderReported =>
       LET order == feedback.perm.args[2]
       IN /\ order \in Nat \ {0}
          /\ IsIdentityPower(elements, mapping, order)
          /\ \A k \in 1..(order - 1) : ~IsIdentityPower(elements, mapping, k)

\* The order of two disjoint transpositions is 2, not 4.
C13_Witness ==
    /\ elements = <<"A", "B", "C", "D">>
    /\ mapping = <<"B", "A", "D", "C">>
    /\ feedback.perm.kind = "Order"
    /\ feedback.perm.args[2] = 2

\* C14: for a valid permutation the reported order is a positive integer
\* divisible by the length of every reported cycle.
C14_OrderDivisibleByCycleLengths ==
    OrderReported =>
       LET cycles == feedback.perm.args[1]
           order == feedback.perm.args[2]
       IN /\ order \in Nat \ {0}
          /\ \A c \in DOMAIN cycles : Len(cycles[c]) > 0 /\ order % Len(cycles[c]) = 0

\* A 2-cycle listed before two fixed points: lengths 2, 1, 1 and order 2.
C14_Witness ==
    /\ OrderReported
    /\ Lengths(feedback.perm.args[1]) = <<2, 1, 1>>
    /\ feedback.perm.args[2] = 2

\* C15: for the identity permutation on a non-empty element list the cycles
\* are one singleton per element in element order, and the order is 1.
C15_IdentityGivesSingletons ==
    (feedback.perm.kind = "Order" /\ elements # <<>> /\ mapping = elements) =>
       /\ feedback.perm.args[1] = [i \in DOMAIN elements |-> <<elements[i]>>]
       /\ feedback.perm.args[2] = 1

\* handleCalculateOrder has reported on the identity of [A, B, C].
C15_Witness ==
    /\ elements = <<"A", "B", "C">>
    /\ mapping = elements
    /\ feedback.perm = Msg("Order", << << <<"A">>, <<"B">>, <<"C">> >>, 1 >>)

\* ---- closure utilities
\* The elements reached from t by one or more connections followed forward.
StrictlyReached(lat, t) ==
    ReachFrom(ConnOf(lat), {e[2] : e \in {d \in ConnOf(lat) : d[1] = t}})

\* The elements from which t is reached by one or more connections.
StrictlyReaching(lat, t) ==
    LET back == {<<e[2], e[1]>> : e \in ConnOf(lat)}
    IN ReachFrom(back, {e[2] : e \in {d \in back : d[1] = t}})

NoRepeats(s) == Cardinality(Range(s)) = Len(s)

\* C16: on every relation with declared targets, cyclic or not, getAllBelow(t)
\* returns without repeats exactly the elements reached from t by one or more
\* connections followed forward, and getAllAbove(t) exactly the elements from
\* which t is reached by one or more connections.
C16_ClosuresAreStrictReachability ==
    \A i \in DOMAIN lattice :
       LET t == lattice[i].value
           below == getAllBelow(t, lattice)
           above == getAllAbove(t, lattice)
       IN /\ NoRepeats(below)
          /\ Range(below) = StrictlyReached(lattice, t)
          /\ NoRepeats(above)
          /\ Range(above) = StrictlyReaching(lattice, t)

\* handleCheckBounded has run on the cycle A -> B -> C -> A with the branch
\* C -> B: every closure is the whole element set.
C16_Witness ==
    /\ lattice = << LatticeElement("A", <<"B">>), LatticeElement("B", <<"C">>),
                    LatticeElement("C", <<"B", "A">>) >>
    /\ feedback.lattice.kind = "Ambiguous"
    /\ getAllBelow("A", lattice) = <<"B", "C", "A">>
    /\ getAllAbove("A", lattice) = <<"C", "B", "A">>

\* C17 as claimed: the start element is never a member of its own closure.
C17_StartNeverInClosure ==
    \A i \in DOMAIN lattice :
       LET t == lattice[i].value
       IN /\ ~Includes(getAllAbove(t, lattice), t)
          /\ ~Includes(getAllBelow(t, lattice), t)

\* C17 as amended: the start element is a member of getAllAbove(t) and of
\* getAllBelow(t) exactly when t lies on a cycle (a self-loop included);
\* otherwise it is in neither and only the caller adds it.
C17_StartInClosureIffOnCycle ==
    \A i \in DOMAIN lattice :
       LET t == lattice[i].value
           onCycle == t \in StrictlyReached(lattice, t)
       IN /\ Includes(getAllAbove(t, lattice), t) <=> onCycle
          /\ Includes(getAllBelow(t, lattice), t) <=> onCycle

\* handleCheckBasicLattice has run on A -> B -> A with C apart: A is in its
\* own closures, C is not.
C17_Witness ==
    /\ lattice = << LatticeElement("A", <<"B">>), LatticeElement("B", <<"A">>),
                    LatticeElement("C", <<>>) >>
    /\ feedback.lattice.kind = "NotLattice"
    /\ Includes(getAllBelow("A", lattice), "A")
    /\ Includes(getAllAbove("A", lattice), "A")
    /\ ~Includes(getAllBelow("C", lattice), "C")

\* ---- the editors
\* C18: in every state the editors reach, every target listed in an element's
\* relations or connections is a declared element of the structure.
C18_TargetsAreDeclared ==
    /\ \A i \in DOMAIN poset : Range(poset[i].relations) \subseteq PosetValues
    /\ \A i \in DOMAIN lattice : Range(lattice[i].connections) \subseteq LatticeValues

\* The relation text "a-a" for the label a.
SelfRelationText(a) == <<a, "-", a>>

\* C19: for every declared element a, submitting "a-a" to the add-relation
\* operation (handleAddRelation, addRelation) is accepted and puts a on a's
\* relation list.
C19_SelfRelationAccepted ==
    [][\A i \in DOMAIN poset :
          LET a == poset[i].value
          IN /\ (game = "posets" /\ handleAddRelation(SelfRelationText(a)))
                   => (feedback'.poset.kind = "RelationAdded" /\ Includes(poset'[i].relations, a))
             /\ (game = "posets-simple" /\ addRelation(SelfRelationText(a)))
                   => (feedback'.poset.kind = "SimpleRelationAdded"
                       /\ Includes(poset'[i].relations, a))]_vars

\* C20: in every state the editors reach, the element labels of a structure
\* are pairwise distinct.
C20_LabelsAreDistinct ==
    /\ \A i, j \in DOMAIN poset : poset[i].value = poset[j].value => i = j
    /\ \A i, j \in DOMAIN lattice : lattice[i].value = lattice[j].value => i = j
    /\ \A i, j \in DOMAIN elements : elements[i] = elements[j] => i = j

\* The permutation explorer has refused "a" or "d" after D was added: the
\* upper-cased label exists.
C20_Witness ==
    /\ game = "permutations"
    /\ elements = <<"A", "B", "C", "D">>
    /\ feedback.perm = Msg("ElementExists", <<"D">>)

\* ---- rejected edits
\* What every edit leaves alone when it is rejected.
Structure == <<poset, lattice, elements, mapping>>

\* The text names a pair that is to be rejected among the labels values: a
\* part is missing or empty, both parts are the same, or a part is not a label.
RejectedPair(text, values) ==
    LET parts == Split(text, "-")
        from == Part(parts, 1)
        to == Part(parts, 2)
    IN \/ Falsy(from) \/ Falsy(to)
       \/ from = to
       \/ from[1] \notin values \/ to[1] \notin values

\* C21: a rejected edit leaves the structure unchanged: when add-element is
\* given an existing label, or add-relation / add-connection a malformed pair,
\* a pair with from equal to to, or an undeclared endpoint, the element list
\* and all relation lists (for permutations, elements and mapping) are as
\* before and only the feedback message changes.
C21_RejectedEditChangesNothing ==
    [][/\ game = "posets" =>
             /\ \A text \in ElementTexts :
                   (Join(Trim(text)) \in PosetValues /\ PosetGame_handleAddElement(text))
                      => UNCHANGED Structure
             /\ \A text \in RelationTexts :
                   (RejectedPair(Trim(text), PosetValues) /\ handleAddRelation(text))
                      => UNCHANGED Structure
       /\ game = "lattices" =>
             /\ \A text \in ElementTexts :
                   (Join(Trim(text)) \in LatticeValues /\ handleAddElement(text))
                      => UNCHANGED Structure
             /\ \A text \in ConnectionTexts :
                   (RejectedPair(Trim(text), LatticeValues) /\ handleAddConnection(text))
                      => UNCHANGED Structure
       /\ game = "posets-simple" =>
             /\ \A text \in SimpleElementTexts :
                   (Join(text) \in PosetValues /\ addElement(text)) => UNCHANGED Structure
             /\ \A text \in SimpleTexts(PosetValues, poset[1].value) :
                   (RejectedPair(text, PosetValues) /\ addRelation(text))
                      => UNCHANGED Structure
       /\ game = "lattices-simple" =>
             /\ \A text \in SimpleElementTexts :
                   (Join(text) \in LatticeValues /\ LatticeGame_addElement(text))
                      => UNCHANGED Structure
             /\ \A text \in SimpleTexts(LatticeValues, lattice[1].value) :
                   (RejectedPair(text, LatticeValues) /\ addConnection(text))
                      => UNCHANGED Structure
       /\ game = "permutations" =>
             \A text \in PermutationTexts :
                (Join(ToUpperCase(Trim(text))) \in Range(elements)
                   /\ PermutationGame_handleAddElement(text)) => UNCHANGED Structure]_vars

\* ---- the two closures against each other
\* C22: for every relation with declared targets and every pair of elements
\* x, y: x is in getAllAbove(y) exactly when y is in getAllBelow(x).
C22_AboveIsBelowReversed ==
    \A i, j \in DOMAIN lattice :
       LET x == lattice[i].value
           y == lattice[j].value
       IN Includes(getAllAbove(y, lattice), x) <=> Includes(getAllBelow(x, lattice), y)

\* handleCheckBounded has run on the chain A -> B -> C: A is above C for
\* getAllAbove and C below A for getAllBelow, two connections apart, and
\* neither holds the other way round.
C22_Witness ==
    /\ lattice = << LatticeElement("A", <<"B">>), LatticeElement("B", <<"C">>),
                    LatticeElement("C", <<>>) >>
    /\ feedback.lattice = Msg("Bounded", <<"A", "C">>)
    /\ Includes(getAllAbove("C", lattice), "A")
    /\ Includes(getAllBelow("A", lattice), "C")
    /\ ~Includes(getAllAbove("A", lattice), "C")

\* ---- the verdict on screen
\* C23: in the graph-based POSET builder, whenever the feedback shows the
\* "valid POSET" verdict, the relation on screen is reflexive, antisymmetric
\* and transitive.
C23_ValidVerdictIsCurrent ==
    (game = "posets" /\ feedback.poset.kind = "ValidPOSET") =>
       IsPartialOrder(poset)

\* ---- the POSET check against the bounded check
\* Two distinct elements each reached from the other by connections.
MutuallyReachable(lat) ==
    \E i, j \in DOMAIN lat :
       /\ lat[i].value # lat[j].value
       /\ lat[j].value \in StrictlyReached(lat, lat[i].value)
       /\ lat[i].value \in StrictlyReached(lat, lat[j].value)

\* C24: for every non-empty relation that handleCheckPoset accepts as a valid
\* POSET, handleCheckBounded finds at most one bottom candidate and at most
\* one top candidate and never reports the ambiguous verdict; and on any
\* relation two bottom candidates or two top candidates exist only when two
\* distinct elements are mutually reachable.
C24_ValidPosetNeverAmbiguous ==
    LET bottoms == bottomCandidates(lattice)
        tops == topCandidates(lattice)
    IN /\ (Len(poset) >= 1 /\ PosetVerdict(poset).kind = "ValidPOSET") =>
             /\ Len(bottoms) <= 1
             /\ Len(tops) <= 1
             /\ BoundedVerdict(lattice).kind # "Ambiguous"
       /\ (feedback.poset.kind = "ValidPOSET" /\ Len(poset) >= 1) =>
             feedback.lattice.kind # "Ambiguous"
       /\ (Len(bottoms) > 1 \/ Len(tops) > 1) => MutuallyReachable(lattice)

\* Both checks have run on the reflexive "V" A <= C, B <= C: a valid POSET
\* with the single top candidate C and no bottom candidate.
C24_Witness ==
    /\ poset = << PosetElement("A", <<"A", "C">>), PosetElement("B", <<"B", "C">>),
                  PosetElement("C", <<"C">>) >>
    /\ lattice = AsLattice(poset)
    /\ feedback.poset.kind = "ValidPOSET"
    /\ feedback.lattice.kind = "NotBounded"
    /\ Len(bottomCandidates(lattice)) + Len(topCandidates(lattice)) = 1

\* ---- the basic lattice check against the bounded check
\* C25: in every state of the graph-based lattice builder,
\* handleCheckBasicLattice reports "valid lattice" exactly when
\* handleCheckBounded finds at least one bottom candidate and at least one
\* top candidate, that is, does not report "not bounded".
C25_BasicLatticeIffBounded ==
    game = "lattices" =>
       /\ (BasicLatticeVerdict(lattice).kind = "ValidLattice") <=>
             (Len(bottomCandidates(lattice)) >= 1 /\ Len(topCandidates(lattice)) >= 1)
       /\ (BasicLatticeVerdict(lattice).kind = "ValidLattice") <=>
             (BoundedVerdict(lattice).kind # "NotBounded")

\* The puzzle with the element E added below P only, checked: P is the one
\* bottom candidate, nothing is a top candidate, and Q and E fail the check.
C25_Witness ==
    /\ game = "lattices"
    /\ lattice = << LatticeElement("P", <<"Q", "E">>), LatticeElement("Q", <<"R">>),
                    LatticeElement("R", <<>>), LatticeElement("E", <<>>) >>
    /\ feedback.lattice = Msg("NotLattice", <<"Q", "E">>)
    /\ bottomCandidates(lattice) = <<"P">>
    /\ topCandidates(lattice) = <<>>

\* ---- the simple POSET builder never shows a valid poset
\* C26: in the simple POSET builder, from the initial poset on, no element
\* ever lists itself among its relations, so checkPosetProperties finds no
\* state a valid poset and the "valid poset" verdict is never on screen.
C26_SimplePosetNeverValid ==
    game = "posets-simple" =>
       /\ \A i \in DOMAIN poset : ~Includes(poset[i].relations, poset[i].value)
       /\ SimplePosetVerdict(poset).kind # "ValidPoset"
       /\ feedback.poset.kind # "ValidPoset"

\* The initial poset made transitive by A-D and checked: antisymmetric and
\* transitive, yet not a valid poset for want of the self-pairs.
C26_Witness ==
    /\ game = "posets-simple"
    /\ poset = << PosetElement("A", <<"B", "C", "D">>), PosetElement("B", <<"D">>),
                  PosetElement("C", <<"D">>), PosetElement("D", <<>>) >>
    /\ isAntisymmetric(poset)
    /\ isTransitive(poset)
    /\ feedback.poset.kind = "NotValidPoset"

\* ---- the permutation explorer's two checks
\* The labels of a list of cycles, one after the other.
RECURSIVE Flatten(_)
Flatten(cycles) == IF cycles = <<>> THEN <<>> ELSE Head(cycles) \o Flatten(Tail(cycles))

\* C27: in every state of the permutation explorer, mapping is as long as
\* elements and holds only elements; handleCalculateOrder reports cycles and
\* an order exactly when handleCheckPermutation reports a valid permutation,
\* and refuses otherwise; and computeCycles puts each index in at most one
\* position of one cycle.
C27_OrderExactlyForValidMappings ==
    game = "permutations" =>
       /\ Len(mapping) = Len(elements)
       /\ Range(mapping) \subseteq Range(elements)
       /\ (OrderVerdict(elements, mapping).kind = "Order") <=>
             (PermutationVerdict(elements, mapping).kind = "PermutationValid")
       /\ (OrderVerdict(elements, mapping).kind = "CannotCalculate") <=>
             (PermutationVerdict(elements, mapping).kind # "PermutationValid")
       /\ feedback.perm.kind = "Order" =>
             PermutationVerdict(elements, mapping).kind = "PermutationValid"
       /\ feedback.perm.kind = "CannotCalculate" =>
             PermutationVerdict(elements, mapping).kind # "PermutationValid"
       /\ NoRepeats(Flatten(computeCycles(elements, mapping)))
       /\ Range(Flatten(computeCycles(elements, mapping))) \subseteq Range(elements)

\* D added, B chosen for the second column, and the order asked for: two
\* columns map to B, the order is refused, and the walk from A stops at B.
C27_Witness ==
    /\ game = "permutations"
    /\ elements = <<"A", "B", "C", "D">>
    /\ mapping = <<"B", "B", "A", "D">>
    /\ feedback.perm.kind = "CannotCalculate"
    /\ PermutationVerdict(elements, mapping).kind = "InvalidCodomain"
    /\ computeCycles(elements, mapping) = << <<"A", "B">>, <<"C">>, <<"D">> >>

====
